---- MODULE Spec2Model ----
(***************************************************************************)
(* A model of hashing/sha1_lea.py: the streaming SHA-1 hasher (class SHA1) *)
(* and the length extension attack sha1_lea built on it.                   *)
(*                                                                         *)
(* Representation of Python values:                                        *)
(*   bytes          a sequence of integers 0..255                          *)
(*   int            Python ints are unbounded: an int >= 0 is the sequence *)
(*                  of its base-2^16 digits ("limbs"), least significant   *)
(*                  first, without leading zero limbs (0 is <<>>).  A      *)
(*                  value below 2^32 therefore has at most 2 limbs, and    *)
(*                  "& 0xffffffff" is what cuts a longer value down.       *)
(*   len(...)       an integer of the model                                *)
(*   str            a sequence of one-character strings                    *)
(*   list of ints   a sequence of ints, held in the heap and named by its  *)
(*                  address, since Python binds lists by reference         *)
(*   a call         [exc |-> "none", val |-> result] when it returns,      *)
(*                  [exc |-> the exception's name, val |-> <<>>] when it   *)
(*                  raises                                                 *)
(***************************************************************************)
EXTENDS Integers, Sequences, FiniteSets, TLC

-----------------------------------------------------------------------------
(* Python integer arithmetic on limb sequences                             *)

Max(a, b) == IF a >= b THEN a ELSE b
Min(a, b) == IF a <= b THEN a ELSE b

\* the sequence f as a tuple of evaluated elements (f \o <<>> = f)
Tuple(f) == f \o <<>>

\* drop the leading (most significant) zero limbs
RECURSIVE Norm(_)
Norm(x) == IF Len(x) > 0 /\ x[Len(x)] = 0 THEN Norm(SubSeq(x, 1, Len(x) - 1)) ELSE x

Limb(x, i) == IF i >= 1 /\ i <= Len(x) THEN x[i] ELSE 0

\* the int n of the model (0 <= n < 2^31) as a Python int
FromInt(n) == Norm(<<n % 65536, n \div 65536>>)

\* the Python int x (x < 2^31) as an int of the model
ToInt(x) == Limb(x, 1) + 65536 * Limb(x, 2)

\* a 32-bit literal 0xHHHHLLLL written as its two 16-bit halves
Lit32(hi, lo) == Norm(<<lo, hi>>)

RECURSIVE And4R(_, _)
And4R(a, b) == IF a = 0 \/ b = 0 THEN 0 ELSE (a % 2) * (b % 2) + 2 * And4R(a \div 2, b \div 2)

\* a & b for a, b < 16, tabulated
And4 == [a \in 0..15 |-> [b \in 0..15 |-> And4R(a, b)]]

\* a & b for a, b < 2^16
And16(a, b) ==
    And4[a % 16][b % 16] + 16 * And4[(a \div 16) % 16][(b \div 16) % 16]
    + 256 * And4[(a \div 256) % 16][(b \div 256) % 16] + 4096 * And4[a \div 4096][b \div 4096]

\* x & y
BitAnd(x, y) ==
    IF x = <<>> \/ y = <<>> THEN <<>>
    ELSE Norm(Tuple([i \in 1..Min(Len(x), Len(y)) |-> And16(x[i], y[i])]))

\* x | y
BitOr(x, y) ==
    IF x = <<>> THEN y ELSE IF y = <<>> THEN x ELSE
    Norm(Tuple([i \in 1..Max(Len(x), Len(y)) |->
                  Limb(x, i) + Limb(y, i) - And16(Limb(x, i), Limb(y, i))]))

\* x ^ y
BitXor(x, y) ==
    IF x = <<>> THEN y ELSE IF y = <<>> THEN x ELSE
    Norm(Tuple([i \in 1..Max(Len(x), Len(y)) |->
                  Limb(x, i) + Limb(y, i) - 2 * And16(Limb(x, i), Limb(y, i))]))

\* x << b
Shl(x, b) ==
    LET q == b \div 16
        r == b % 16
    IN  IF x = <<>> THEN <<>> ELSE
        Norm(Tuple([i \in 1..(Len(x) + q + 1) |->
                      IF i <= q THEN 0
                      ELSE ((Limb(x, i - q) * (2 ^ r)) % 65536)
                           + ((Limb(x, i - q - 1) * (2 ^ r)) \div 65536)]))

\* x >> b
Shr(x, b) ==
    LET q == b \div 16
        r == b % 16
    IN  IF x = <<>> THEN <<>> ELSE
        Norm(Tuple([i \in 1..Max(Len(x) - q, 0) |->
                      (Limb(x, i + q) \div (2 ^ r))
                      + (Limb(x, i + q + 1) % (2 ^ r)) * (2 ^ (16 - r))]))

RECURSIVE AddCarry(_, _, _, _, _)
AddCarry(x, y, i, c, acc) ==
    IF i > Max(Len(x), Len(y))
    THEN Norm(Append(acc, c))
    ELSE LET s == Limb(x, i) + Limb(y, i) + c
         IN  AddCarry(x, y, i + 1, s \div 65536, Append(acc, s % 65536))

\* x + y
Add(x, y) == IF x = <<>> THEN y ELSE IF y = <<>> THEN x ELSE AddCarry(x, y, 1, 0, <<>>)

xFFFFFFFF == Lit32(\hFFFF, \hFFFF)

-----------------------------------------------------------------------------
(* SHA1.compress                                                           *)

\* leftrot = lambda w, b: ((w << b) | (w >> (32 - b))) & 0xffffffff
leftrot(w, b) == BitAnd(BitOr(Shl(w, b), Shr(w, 32 - b)), xFFFFFFFF)

\* struct.unpack('>I', s)[0] for a 4-byte s: big-endian, s[1] most significant
unpack_I(s) == Norm(<<s[3] * 256 + s[4], s[1] * 256 + s[2]>>)

\* for i in range(16): x[i] = struct.unpack('>I', chunk[4*i:4*i+4])[0]
schedule16(chunk) ==
    Tuple([i \in 1..16 |-> unpack_I(SubSeq(chunk, 4 * (i - 1) + 1, 4 * (i - 1) + 4))])

\* x[i] = leftrot(x[i-3] ^ x[i-8] ^ x[i-14] ^ x[i-16], 1)
\* (x holds x[0..i-1] at positions 1..i)
expand_word(x, i) ==
    leftrot(BitXor(BitXor(BitXor(x[i - 3 + 1], x[i - 8 + 1]), x[i - 14 + 1]), x[i - 16 + 1]), 1)

\* for i in range(lo, hi): x[i] = ..., the range halved at each level so that
\* the evaluation nests log(hi - lo) deep
RECURSIVE expand(_, _, _)
expand(x, lo, hi) ==
    IF hi - lo <= 1
    THEN IF hi > lo THEN Append(x, expand_word(x, lo)) ELSE x
    ELSE LET mid == (lo + hi) \div 2
             upper(y) == IF Len(y) # mid THEN y ELSE expand(y, mid, hi)
         IN  upper(expand(x, lo, mid))

round_y(i) ==
    IF 0 <= i /\ i <= 19 THEN Lit32(\h5A82, \h7999)
    ELSE IF 20 <= i /\ i <= 39 THEN Lit32(\h6ED9, \hEBA1)
    ELSE IF 40 <= i /\ i <= 59 THEN Lit32(\h8F1B, \hBCDC)
    ELSE Lit32(\hCA62, \hC1D6)

round_z(i, b, c, d) ==
    IF 0 <= i /\ i <= 19 THEN BitOr(BitAnd(b, c), BitAnd(BitXor(b, xFFFFFFFF), d))
    ELSE IF 20 <= i /\ i <= 39 THEN BitXor(BitXor(b, c), d)
    ELSE IF 40 <= i /\ i <= 59 THEN BitOr(BitOr(BitAnd(b, c), BitAnd(b, d)), BitAnd(c, d))
    ELSE BitXor(BitXor(b, c), d)

\* one pass of the body of "for i in range(80)": v = <<a, b, c, d, e>>
round_t(i, v, x) ==
    BitAnd(Add(Add(Add(Add(leftrot(v[1], 5), round_z(i, v[2], v[3], v[4])), v[5]),
                   x[i + 1]),
               round_y(i)),
           xFFFFFFFF)

round(i, v, x) == <<round_t(i, v, x), v[1], leftrot(v[2], 30), v[3], v[4]>>

\* the passes i = lo, ..., hi - 1 of "for i in range(80)", from v; the range
\* is halved at each level so that the evaluation nests log(hi - lo) deep
RECURSIVE rounds(_, _, _, _)
rounds(lo, hi, v, x) ==
    IF hi - lo <= 1
    THEN IF hi > lo THEN round(lo, v, x) ELSE v
    ELSE LET mid == (lo + hi) \div 2
             upper(w) == IF Len(w) # 5 THEN w ELSE rounds(mid, hi, w, x)
         IN  upper(rounds(lo, mid, v, x))

\* compress_return without the "& 0xffffffff": return h0 + a, ..., h4 + e
compress_return_unmasked(h, v) ==
    IF Len(v) # 5 THEN <<>>
    ELSE <<Add(h[1], v[1]), Add(h[2], v[2]), Add(h[3], v[3]), Add(h[4], v[4]), Add(h[5], v[5])>>

\* return (h0 + a) & 0xffffffff, ..., (h4 + e) & 0xffffffff for v = <<a, b, c, d, e>>
compress_return(h, v) ==
    IF Len(v) # 5 THEN <<>>
    ELSE <<BitAnd(Add(h[1], v[1]), xFFFFFFFF),
           BitAnd(Add(h[2], v[2]), xFFFFFFFF),
           BitAnd(Add(h[3], v[3]), xFFFFFFFF),
           BitAnd(Add(h[4], v[4]), xFFFFFFFF),
           BitAnd(Add(h[5], v[5]), xFFFFFFFF)>>

\* a, b, c, d, e = h0, h1, h2, h3, h4 and the 80 passes over the schedule x
compress_rounds(h, x) == IF Len(x) # 80 THEN <<>> ELSE compress_return(h, rounds(0, 80, h, x))

\* the body of compress below its assert, for h = <<h0, h1, h2, h3, h4>>
compress_block(chunk, h) == compress_rounds(h, expand(schedule16(chunk), 16, 80))

Return(v) == [exc |-> "none", val |-> v]
Raise(e) == [exc |-> e, val |-> <<>>]

\* self.compress(chunk, *h): the call binds h0..h4 to the 5 elements of h (any
\* other number of elements is a TypeError), then the assert checks the chunk
compress(chunk, h) ==
    IF Len(h) # 5 THEN Raise("TypeError")
    ELSE IF Len(chunk) # 64 THEN Raise("AssertionError")
    ELSE Return(compress_block(chunk, h))

-----------------------------------------------------------------------------
(* SHA1.__init__ and SHA1.update on hasher values                          *)
(* A hasher value is [h, hashed_bytes, buffer] with h the list self.h      *)
(* names; the actions below keep the lists in the heap.                    *)

\* the list built once, when "def __init__" is evaluated, as the default of state
DefaultState ==
    <<Lit32(\h6745, \h2301), Lit32(\hefcd, \hab89), Lit32(\h98ba, \hdcfe),
      Lit32(\h1032, \h5476), Lit32(\hc3d2, \he1f0)>>

\* SHA1(state)
init(state) == [h |-> state, hashed_bytes |-> FromInt(0), buffer |-> <<>>]

\* update_cond with the comparison made strict: while len(self.buffer) > 64
update_cond_strict(self) == Len(self.buffer) > 64

\* while len(self.buffer) >= 64
update_cond(self) == Len(self.buffer) >= 64

\* chunk, self.buffer = self.buffer[:64], self.buffer[64:]
update_chunk(self) == SubSeq(self.buffer, 1, Min(64, Len(self.buffer)))
update_rest(self) == SubSeq(self.buffer, 65, Len(self.buffer))

\* update_body with the counter advanced by the length of the buffer before it
\* is cut (hashed_bytes += len(self.buffer)) instead of by 64
update_body_counts_buffer(self) ==
    LET assign(r) ==
            IF r.exc = "none"
            THEN Return([h |-> r.val,
                         hashed_bytes |-> Add(self.hashed_bytes, FromInt(Len(self.buffer))),
                         buffer |-> update_rest(self)])
            ELSE [exc |-> r.exc, val |-> [self EXCEPT !.buffer = update_rest(self)]]
    IN  assign(compress(update_chunk(self), self.h))

\* one pass of the loop body of update; an exception of compress leaves the
\* loop with the buffer already cut and nothing else assigned
update_body(self) ==
    LET assign(r) ==
            IF r.exc = "none"
            THEN Return([h |-> r.val,
                         hashed_bytes |-> Add(self.hashed_bytes, FromInt(64)),
                         buffer |-> update_rest(self)])
            ELSE [exc |-> r.exc, val |-> [self EXCEPT !.buffer = update_rest(self)]]
    IN  assign(compress(update_chunk(self), self.h))

RECURSIVE update_loop(_)
update_loop(self) ==
    IF update_cond(self)
    THEN LET again(r) == IF r.exc = "none" THEN update_loop(r.val) ELSE r
         IN  again(update_body(self))
    ELSE Return(self)

\* update_append with the buffer replaced (self.buffer = data) instead of extended
update_append_replaces(self, data) == [self EXCEPT !.buffer = data]

\* self.buffer += data
update_append(self, data) == [self EXCEPT !.buffer = @ \o data]

\* self.update(data), as one call: val is the hasher afterwards
update(self, data) == update_loop(update_append(self, data))

-----------------------------------------------------------------------------
(* SHA1.finalize_pad_message, finalize, digest, hexdigest                  *)

\* x % m for m a divisor of 2^16
ModSmall(x, m) == Limb(x, 1) % m

\* b'\00' * n (empty for n <= 0)
Zeros(n) == Tuple([i \in 1..n |-> 0])

\* struct.pack('>Q', v): 8 bytes, big-endian; struct.error unless 0 <= v < 2^64
pack_Q(v) ==
    IF Len(v) > 4 THEN Raise("struct.error")
    ELSE Return(Tuple([i \in 1..8 |->
                  LET l == Limb(v, 4 - ((i - 1) \div 2))
                  IN  IF i % 2 = 1 THEN l \div 256 ELSE l % 256]))

\* struct.pack('>I', v): 4 bytes, big-endian; struct.error unless 0 <= v < 2^32
pack_I(v) ==
    IF Len(v) > 2 THEN Raise("struct.error")
    ELSE Return(Tuple([i \in 1..4 |->
                  LET l == Limb(v, 2 - ((i - 1) \div 2))
                  IN  IF i % 2 = 1 THEN l \div 256 ELSE l % 256]))

\* pad_zeros without the outer "% 64": 56 - (hashed_bytes + 1) % 64
pad_zeros_unwrapped(hashed_bytes) == 56 - ModSmall(Add(hashed_bytes, FromInt(1)), 64)

\* (56 - (hashed_bytes + 1) % 64) % 64
pad_zeros(hashed_bytes) == (56 - ModSmall(Add(hashed_bytes, FromInt(1)), 64)) % 64

\* finalize_pad_message(prefix_length, data), prefix_length a Python int
finalize_pad_message(prefix_length, data) ==
    LET pad(hashed_bytes) ==
            LET append(m, l) == IF l.exc = "none" THEN Return(m \o l.val) ELSE l
            IN  append(data \o <<128>> \o Zeros(pad_zeros(hashed_bytes)),
                       pack_Q(Shl(hashed_bytes, 3)))
    IN  pad(Add(prefix_length, FromInt(Len(data))))

\* the loop of finalize: while m: finalized_h = self.compress(m[:64], *finalized_h)
RECURSIVE finalize_loop(_, _)
finalize_loop(m, finalized_h) ==
    IF Len(m) > 0
    THEN LET again(r) == IF r.exc = "none"
                          THEN finalize_loop(SubSeq(m, 65, Len(m)), r.val)
                          ELSE r
         IN  again(compress(SubSeq(m, 1, Min(64, Len(m))), finalized_h))
    ELSE Return(finalized_h)

\* finalize working on self.h instead of the local finalized_h: the hasher's
\* state becomes the finalized one
finalize_assigns(self, remainder) ==
    LET return(f) == [exc |-> f.exc, val |-> f.val,
                      self |-> IF f.exc = "none" THEN [self EXCEPT !.h = f.val] ELSE self]
        loop(m) == return(IF m.exc = "none" THEN finalize_loop(m.val, self.h) ELSE m)
    IN  loop(finalize_pad_message(self.hashed_bytes, remainder))

\* finalize counting the bytes it pads as hashed (self.hashed_bytes += len(remainder))
finalize_counts(self, remainder) ==
    LET return(f) == [exc |-> f.exc, val |-> f.val,
                      self |-> [self EXCEPT
                                  !.hashed_bytes = Add(self.hashed_bytes, FromInt(Len(remainder)))]]
        loop(m) == return(IF m.exc = "none" THEN finalize_loop(m.val, self.h) ELSE m)
    IN  loop(finalize_pad_message(self.hashed_bytes, remainder))

\* self.finalize(remainder): the call's outcome and the hasher afterwards; the
\* method works on the local finalized_h and assigns nothing to self
finalize(self, remainder) ==
    LET return(f) == [exc |-> f.exc, val |-> f.val, self |-> self]
        loop(m) == return(IF m.exc = "none" THEN finalize_loop(m.val, self.h) ELSE m)
    IN  loop(finalize_pad_message(self.hashed_bytes, remainder))

\* b''.join(parts) / ''.join(parts): the first exception among the parts, or
\* the parts' values in order
RECURSIVE join(_)
join(parts) ==
    IF Len(parts) = 0 THEN Return(<<>>)
    ELSE IF parts[1].exc # "none" THEN parts[1]
    ELSE LET prepend(r) == IF r.exc = "none" THEN Return(parts[1].val \o r.val) ELSE r
         IN  prepend(join(Tail(parts)))

\* self.digest(): the call's outcome and the hasher afterwards
digest(self) ==
    LET return(f, d) == [exc |-> d.exc, val |-> d.val, self |-> f.self]
        pack(f) == return(f, IF f.exc = "none"
                             THEN join(Tuple([k \in 1..Len(f.val) |-> pack_I(f.val[k])]))
                             ELSE f)
    IN  pack(finalize(self, self.buffer))

HexDigits == <<"0", "1", "2", "3", "4", "5", "6", "7", "8", "9", "a", "b", "c", "d", "e", "f">>
HexUpper == <<"0", "1", "2", "3", "4", "5", "6", "7", "8", "9", "A", "B", "C", "D", "E", "F">>

\* the 4 hex digits of one limb
LimbHex(l) ==
    <<HexDigits[(l \div 4096) + 1], HexDigits[((l \div 256) % 16) + 1],
      HexDigits[((l \div 16) % 16) + 1], HexDigits[(l % 16) + 1]>>

RECURSIVE StripZeroDigits(_)
StripZeroDigits(s) ==
    IF Len(s) > 1 /\ s[1] = "0" THEN StripZeroDigits(Tail(s)) ELSE s

\* format(h, "08x"): lowercase hex, zero-filled to 8 characters, longer when
\* h >= 2^32
format_08x(h) ==
    IF Len(h) <= 2
    THEN LimbHex(Limb(h, 2)) \o LimbHex(Limb(h, 1))
    ELSE StripZeroDigits(LimbHex(h[Len(h)]))
         \o Tuple([i \in 1..(4 * (Len(h) - 1)) |->
                     LimbHex(h[Len(h) - 1 - ((i - 1) \div 4)])[((i - 1) % 4) + 1]])

\* self.hexdigest(): the call's outcome and the hasher afterwards
hexdigest(self) ==
    LET return(f, d) == [exc |-> d.exc, val |-> d.val, self |-> f.self]
        format(f) == return(f, IF f.exc = "none"
                               THEN join(Tuple([k \in 1..Len(f.val) |-> Return(format_08x(f.val[k]))]))
                               ELSE f)
    IN  format(finalize(self, self.buffer))

-----------------------------------------------------------------------------
(* SHA1.hexdigest_to_state and sha1_lea                                    *)

IsHexChar(c) == \E n \in 1..16 : HexDigits[n] = c \/ HexUpper[n] = c
HexVal(c) == (CHOOSE n \in 1..16 : HexDigits[n] = c \/ HexUpper[n] = c) - 1

\* textwrap.wrap(s, 8) for a string without whitespace and hyphens: pieces of
\* 8 characters, the last one shorter when 8 does not divide len(s); [] for ""
wrap8(s) ==
    Tuple([g \in 1..((Len(s) + 7) \div 8) |-> SubSeq(s, 8 * (g - 1) + 1, Min(8 * g, Len(s)))])

\* bytes.fromhex(b) for a string without whitespace: ValueError on a character
\* that is no hex digit or on an odd number of digits
fromhex(b) ==
    IF (\E i \in 1..Len(b) : ~IsHexChar(b[i])) \/ Len(b) % 2 = 1
    THEN Raise("ValueError")
    ELSE Return(Tuple([i \in 1..(Len(b) \div 2) |->
                         16 * HexVal(b[2 * i - 1]) + HexVal(b[2 * i])]))

\* struct.unpack('>I', s)[0]: struct.error unless s has 4 bytes
unpack_I_checked(s) == IF Len(s) # 4 THEN Raise("struct.error") ELSE Return(unpack_I(s))

\* struct.unpack('>I', bytes.fromhex(b))[0]
hex_word(b) ==
    LET unpack(s) == IF s.exc = "none" THEN unpack_I_checked(s.val) ELSE s
    IN  unpack(fromhex(b))

\* the list comprehension: the first exception, or the list of the values
RECURSIVE collect(_)
collect(parts) ==
    IF Len(parts) = 0 THEN Return(<<>>)
    ELSE IF parts[1].exc # "none" THEN parts[1]
    ELSE LET prepend(r) == IF r.exc = "none" THEN Return(<<parts[1].val>> \o r.val) ELSE r
         IN  prepend(collect(Tail(parts)))

\* SHA1.hexdigest_to_state(hexdigest)
hexdigest_to_state(hex) ==
    LET words(groups) == collect(Tuple([g \in 1..Len(groups) |-> hex_word(groups[g])]))
    IN  words(wrap8(hex))

\* lea_hashed_bytes without the unknown prefix: session.hashed_bytes = len(padded_data)
lea_hashed_bytes_no_prefix(prefixlength, padded_data) == FromInt(Len(padded_data))

\* lea_hashed_bytes without the padded data: session.hashed_bytes = prefixlength
lea_hashed_bytes_prefix_only(prefixlength, padded_data) == prefixlength

\* session.hashed_bytes = prefixlength + len(padded_data)
lea_hashed_bytes(prefixlength, padded_data) == Add(prefixlength, FromInt(Len(padded_data)))

\* sha1_lea(hexdigest, data, appendix, prefixlength): val is the pair returned
sha1_lea(hex, data, appendix, prefixlength) ==
    LET return(padded_data, hd) ==
            IF hd.exc # "none" THEN Raise(hd.exc)
            ELSE Return(<<hd.val, padded_data.val \o appendix>>)
        extend(state, padded_data) ==
            IF state.exc # "none" THEN state
            ELSE IF padded_data.exc # "none" THEN padded_data
            ELSE return(padded_data,
                        hexdigest([init(state.val) EXCEPT
                                     !.hashed_bytes = lea_hashed_bytes(prefixlength, padded_data.val),
                                     !.buffer = appendix]))
    IN  extend(hexdigest_to_state(hex), finalize_pad_message(prefixlength, data))

-----------------------------------------------------------------------------
(* The hasher objects                                                      *)
(*                                                                         *)
(* heap   the lists of ints, by address; <<>> at an address nothing names. *)
(*        DefaultAddr holds the list that is the default of "state".       *)
(* obj    the hasher objects: obj[i].h is the address self.h names         *)
(* pc     0, or i while obj[i].update is running its loop                  *)
(* fed    fed[i]: the bytes passed to obj[i].update since its construction *)
(* ret    the last step: the method, the object and the outcome            *)
(* arg, res   the arguments and the outcome of a call of one of the static *)
(*        functions (specifications SpecPad, SpecImport, SpecLea)          *)

VARIABLES heap, obj, pc, fed, ret, arg, res

vars == <<heap, obj, pc, fed, ret, arg, res>>

\* the largest number of bytes passed to one hasher
MaxFed == 130
\* the same, where two hashers run side by side
MaxFedTwo == 70

\* the lengths of the pieces passed to update
ChunkLens == {0, 1, 9, 55, 64}
ChunkLensTwo == {0, 35, 64}

\* the input of hasher i is a stream of bytes; each update passes its next n
\* bytes.  Stream(i, off, n) is the piece of n bytes after the first off.
Stream(i, off, n) == Tuple([k \in 1..n |-> (7 * (off + k) + 13 * i) % 256])

DefaultAddr == 0

Inst == DOMAIN obj
Addr == DOMAIN heap

\* the hasher value of object i: its fields, with the list self.h names
View(i) == [h |-> heap[obj[i].h], hashed_bytes |-> obj[i].hashed_bytes, buffer |-> obj[i].buffer]

\* the heap without the lists that no object names any more
Collect(hp, ob) ==
    [a \in DOMAIN hp |-> IF a = DefaultAddr \/ (\E j \in DOMAIN ob : ob[j].h = a) THEN hp[a] ELSE <<>>]

\* rebind_h writing the value into the list self.h names (self.h[:] = value)
\* instead of binding the name to the new list
rebind_h_in_place(hp, ob, i, value) ==
    [heap |-> [hp EXCEPT ![ob[i].h] = value], h |-> ob[i].h]

\* self.h = value, for a list value just built: the name is bound to the new
\* list, at an address no name holds; the list it named before is untouched
rebind_h(hp, ob, i, value) ==
    LET new == CHOOSE a \in DOMAIN hp :
                   /\ a # DefaultAddr
                   /\ \A j \in DOMAIN ob : ob[j].h # a
                   /\ \A b \in DOMAIN hp :
                          (b # DefaultAddr /\ b < a) => (\E j \in DOMAIN ob : ob[j].h = b)
    IN  [heap |-> [hp EXCEPT ![new] = value], h |-> new]

\* the fields of object i become those of the hasher value s
Assign(i, s) ==
    IF s.h = heap[obj[i].h]
    THEN /\ obj' = [obj EXCEPT ![i] = [h |-> @.h, hashed_bytes |-> s.hashed_bytes, buffer |-> s.buffer]]
         /\ heap' = heap
    ELSE \E r \in {rebind_h(heap, obj, i, s.h)} :
             \E ob \in {[obj EXCEPT ![i] = [h |-> r.h, hashed_bytes |-> s.hashed_bytes,
                                            buffer |-> s.buffer]]} :
                 /\ obj' = ob
                 /\ heap' = Collect(r.heap, ob)

\* no static function has been called
NoResult == [op |-> "none", exc |-> "none", val |-> <<>>]

\* the hashers of I just constructed by SHA1()
InitObjects(I) ==
    /\ heap = [a \in 0..(Cardinality(I) + 1) |-> IF a = DefaultAddr THEN DefaultState ELSE <<>>]
    /\ obj = [i \in I |-> init(DefaultAddr)]
    /\ pc = 0
    /\ fed = [i \in I |-> <<>>]
    /\ ret = [op |-> "SHA1", inst |-> 0, exc |-> "none", val |-> <<>>]

\* obj[i] = SHA1(): a new hasher, its state the default argument
New(i) ==
    /\ pc = 0
    /\ fed[i] # <<>>
    /\ \E ob \in {[obj EXCEPT ![i] = init(DefaultAddr)]} :
           /\ obj' = ob
           /\ heap' = Collect(heap, ob)
    /\ fed' = [fed EXCEPT ![i] = <<>>]
    /\ ret' = [op |-> "SHA1", inst |-> i, exc |-> "none", val |-> <<>>]
    /\ UNCHANGED <<pc, arg, res>>

\* obj[i].update(data) is called: the data joins the buffer
UpdateCall(i, data) ==
    /\ pc = 0
    /\ Assign(i, update_append(View(i), data))
    /\ pc' = i
    /\ fed' = [fed EXCEPT ![i] = @ \o data]
    /\ ret' = [op |-> "update", inst |-> i, exc |-> "none", val |-> <<>>]
    /\ UNCHANGED <<arg, res>>

\* one pass of the loop of update
UpdateLoop(i) ==
    /\ pc = i
    /\ update_cond(View(i))
    /\ \E r \in {update_body(View(i))} :
           /\ Assign(i, r.val)
           /\ pc' = IF r.exc = "none" THEN i ELSE 0
           /\ ret' = [op |-> "compress", inst |-> i, exc |-> r.exc, val |-> <<>>]
    /\ UNCHANGED <<fed, arg, res>>

\* the loop of update ends and update returns self
UpdateReturn(i) ==
    /\ pc = i
    /\ ~update_cond(View(i))
    /\ pc' = 0
    /\ ret' = [op |-> "return", inst |-> i, exc |-> "none", val |-> <<>>]
    /\ UNCHANGED <<heap, obj, fed, arg, res>>

\* obj[i].finalize(obj[i].buffer)
Finalize(i) ==
    /\ pc = 0
    /\ \E r \in {finalize(View(i), View(i).buffer)} :
           /\ Assign(i, r.self)
           /\ ret' = [op |-> "finalize", inst |-> i, exc |-> r.exc, val |-> r.val]
    /\ UNCHANGED <<pc, fed, arg, res>>

\* obj[i].digest()
Digest(i) ==
    /\ pc = 0
    /\ \E r \in {digest(View(i))} :
           /\ Assign(i, r.self)
           /\ ret' = [op |-> "digest", inst |-> i, exc |-> r.exc, val |-> r.val]
    /\ UNCHANGED <<pc, fed, arg, res>>

\* obj[i].hexdigest()
Hexdigest(i) ==
    /\ pc = 0
    /\ \E r \in {hexdigest(View(i))} :
           /\ Assign(i, r.self)
           /\ ret' = [op |-> "hexdigest", inst |-> i, exc |-> r.exc, val |-> r.val]
    /\ UNCHANGED <<pc, fed, arg, res>>

\* obj[i].update(the next n bytes of its stream), at most max bytes in all
Feed(i, n, max) ==
    /\ Len(fed[i]) + n <= max
    /\ UpdateCall(i, Stream(i, Len(fed[i]), n))

\* one hasher
Init == InitObjects({1}) /\ arg = <<>> /\ res = NoResult

Next ==
    \/ New(1)
    \/ \E n \in ChunkLens : Feed(1, n, MaxFed)
    \/ UpdateLoop(1)
    \/ UpdateReturn(1)
    \/ Finalize(1)
    \/ Digest(1)
    \/ Hexdigest(1)

Spec == Init /\ [][Next]_vars

\* two hashers side by side
InitTwo == InitObjects({1, 2}) /\ arg = <<>> /\ res = NoResult

NextTwo ==
    \/ \E i \in {1, 2} : New(i)
    \/ \E i \in {1, 2} : \E n \in ChunkLensTwo : Feed(i, n, MaxFedTwo)
    \/ \E i \in {1, 2} : UpdateLoop(i)
    \/ \E i \in {1, 2} : UpdateReturn(i)
    \/ \E i \in {1, 2} : Digest(i)
    \/ \E i \in {1, 2} : Hexdigest(i)

SpecTwo == InitTwo /\ [][NextTwo]_vars

-----------------------------------------------------------------------------
(* The static functions, applied to drawn arguments                        *)

\* the outcome r of the call of op
Outcome(op, r) == [op |-> op, exc |-> r.exc, val |-> r.val]

\* finalize_pad_message: prefix lengths 0..MaxPrefix and those around 2^61,
\* where the bit length reaches 2^64; data of 0..MaxData bytes
MaxPrefix == 66
MaxData == 66

BigPrefixes ==
    {Shl(FromInt(1), 61),
     <<\hFFFF, \hFFFF, \hFFFF, \h1FFF>>,
     <<\hFFC0, \hFFFF, \hFFFF, \h1FFF>>,
     Shl(FromInt(1), 64),
     Shl(FromInt(3), 70)}

PadInputs ==
    {[prefix_length |-> p, data |-> Stream(1, 0, n)] :
        p \in {FromInt(q) : q \in 0..MaxPrefix} \cup BigPrefixes, n \in 0..MaxData}

InitPad == InitObjects({1}) /\ arg \in PadInputs /\ res = NoResult

\* res = SHA1.finalize_pad_message(prefix_length, data)
Pad ==
    /\ res.op = "none"
    /\ res' = Outcome("finalize_pad_message", finalize_pad_message(arg.prefix_length, arg.data))
    /\ UNCHANGED <<heap, obj, pc, fed, ret, arg>>

NextPad == Pad

SpecPad == InitPad /\ [][NextPad]_vars

\* hexdigest_to_state: the first digest of test(), cut or repeated to 0..MaxHexLen
\* characters, or with one character replaced
MaxHexLen == 50

TestDigest ==
    <<"d", "a", "3", "9", "a", "3", "e", "e", "5", "e", "6", "b", "4", "b", "0", "d",
      "3", "2", "5", "5", "b", "f", "e", "f", "9", "5", "6", "0", "1", "8", "9", "0",
      "a", "f", "d", "8", "0", "7", "0", "9">>

ImportInputs ==
    {SubSeq(TestDigest \o TestDigest, 1, n) : n \in 0..MaxHexLen}
    \cup {[TestDigest EXCEPT ![k] = c] : k \in 1..Len(TestDigest), c \in {"g", "F", "x"}}

InitImport == InitObjects({1}) /\ arg \in {[hexdigest |-> d] : d \in ImportInputs} /\ res = NoResult

\* res = SHA1.hexdigest_to_state(hexdigest)
Import ==
    /\ res.op = "none"
    /\ res' = Outcome("hexdigest_to_state", hexdigest_to_state(arg.hexdigest))
    /\ UNCHANGED <<heap, obj, pc, fed, ret, arg>>

NextImport == Import

SpecImport == InitImport /\ [][NextImport]_vars

\* sha1_lea: a secret prefix S, a known suffix M and an appendix A
LeaPrefixLens == {0, 3, 64}
LeaSuffixLens == {0, 2, 56, 70}
LeaAppendixLens == {0, 1, 64, 70}

LeaInputs ==
    {[S |-> Stream(1, 0, s), M |-> Stream(2, 0, m), A |-> Stream(3, 0, a), D |-> <<>>] :
        s \in LeaPrefixLens, m \in LeaSuffixLens, a \in LeaAppendixLens}

InitLea == InitObjects({1}) /\ arg \in LeaInputs /\ res = NoResult

\* the holder of the secret publishes D = SHA1().update(S + M).hexdigest()
Publish ==
    /\ res.op = "none"
    /\ \E d \in {hexdigest(update(init(DefaultState), arg.S \o arg.M).val)} :
           /\ arg' = [arg EXCEPT !.D = d.val]
           /\ res' = Outcome("hexdigest", d)
    /\ UNCHANGED <<heap, obj, pc, fed, ret>>

\* res = sha1_lea(D, M, A, len(S))
Extend ==
    /\ res.op = "hexdigest"
    /\ res' = Outcome("sha1_lea", sha1_lea(arg.D, arg.M, arg.A, FromInt(Len(arg.S))))
    /\ UNCHANGED <<heap, obj, pc, fed, ret, arg>>

NextLea == Publish \/ Extend

SpecLea == InitLea /\ [][NextLea]_vars

-----------------------------------------------------------------------------
(* Hashers built from a digest, and sha1_lea step by step                  *)
(*                                                                         *)
(* pc = InLea(i) while sha1_lea runs with its session in obj[i], built and *)
(* not yet finalized; pc = Ended(i) once sha1_lea has returned or raised   *)
(* and the program, as cli() does, has ended.                              *)

InLea(i) == 0 - i
Ended(i) == 0 - i - Cardinality(Inst)

\* the largest number of bytes passed to a hasher built from a digest
MaxFedSeed == 70
ChunkLensSeed == {0, 35, 64}

\* 40 hex digits: the first digest of test(), and the words 0xffffffff
SeedDigests == {TestDigest, Tuple([k \in 1..40 |-> "f"])}

\* the arguments of sha1_lea: the prefix lengths include those at which the
\* bit length of the message reaches 2^64
LeaDataLens == {0, 5}
LeaAppendixLensAny == {0, 70}
LeaPrefixLengths ==
    {FromInt(0), FromInt(3), FromInt(64),
     <<\hFFC0, \hFFFF, \hFFFF, \h1FFF>>,
     Shl(FromInt(1), 61)}

\* obj[i] = SHA1(SHA1.hexdigest_to_state(hexdigest))
Seed(i, hex) ==
    /\ pc = 0
    /\ \E state \in {hexdigest_to_state(hex)} :
           /\ IF state.exc = "none"
              THEN Assign(i, init(state.val)) /\ fed' = [fed EXCEPT ![i] = <<>>]
              ELSE UNCHANGED <<heap, obj, fed>>
           /\ ret' = [op |-> "SHA1", inst |-> i, exc |-> state.exc, val |-> <<>>]
    /\ UNCHANGED <<pc, arg, res>>

\* the session of sha1_lea once its fields are assigned
lea_session(state, padded_data, appendix, prefixlength) ==
    [init(state) EXCEPT !.hashed_bytes = lea_hashed_bytes(prefixlength, padded_data),
                        !.buffer = appendix]

\* sha1_lea(hexdigest, data, appendix, prefixlength) up to its return
\* statement: the session is built in obj[i] and its fields are assigned
LeaCall(i, hex, data, appendix, prefixlength) ==
    /\ pc = 0
    /\ \E state \in {hexdigest_to_state(hex)} :
       \E padded_data \in {finalize_pad_message(prefixlength, data)} :
           /\ IF state.exc # "none"
              THEN /\ UNCHANGED <<heap, obj>>
                   /\ res' = Outcome("sha1_lea", state)
                   /\ pc' = Ended(i)
              ELSE IF padded_data.exc # "none"
              THEN /\ Assign(i, init(state.val))
                   /\ res' = Outcome("sha1_lea", padded_data)
                   /\ pc' = Ended(i)
              ELSE /\ Assign(i, lea_session(state.val, padded_data.val, appendix, prefixlength))
                   /\ res' = NoResult
                   /\ pc' = InLea(i)
           /\ arg' = [hexdigest |-> hex, data |-> data, appendix |-> appendix,
                      prefixlength |-> prefixlength, padded_data |-> padded_data.val]
           /\ ret' = [op |-> "sha1_lea", inst |-> i,
                      exc |-> IF state.exc # "none" THEN state.exc ELSE padded_data.exc,
                      val |-> <<>>]
    /\ fed' = [fed EXCEPT ![i] = <<>>]

\* return session.hexdigest(), padded_data + appendix
LeaReturn(i) ==
    /\ pc = InLea(i)
    /\ \E r \in {hexdigest(View(i))} :
           /\ Assign(i, r.self)
           /\ ret' = [op |-> "hexdigest", inst |-> i, exc |-> r.exc, val |-> r.val]
           /\ res' = Outcome("sha1_lea",
                             IF r.exc = "none"
                             THEN Return(<<r.val, arg.padded_data \o arg.appendix>>)
                             ELSE Raise(r.exc))
    /\ pc' = Ended(i)
    /\ UNCHANGED <<fed, arg>>

InitSession == InitObjects({1}) /\ arg = <<>> /\ res = NoResult

NextSession ==
    \/ New(1)
    \/ \E d \in SeedDigests : Seed(1, d)
    \/ \E n \in ChunkLensSeed : Feed(1, n, MaxFedSeed)
    \/ UpdateLoop(1)
    \/ UpdateReturn(1)
    \/ Finalize(1)
    \/ Digest(1)
    \/ Hexdigest(1)
    \/ \E d \in SeedDigests : \E m \in LeaDataLens : \E a \in LeaAppendixLensAny :
           \E p \in LeaPrefixLengths : LeaCall(1, d, Stream(2, 0, m), Stream(3, 0, a), p)
    \/ LeaReturn(1)

SpecSession == InitSession /\ [][NextSession]_vars

-----------------------------------------------------------------------------
(* The properties                                                          *)

\* SHA1().update(m), for the whole of m in one call
OneShot(m) == update(init(DefaultState), m).val

\* C1 (as amended): for a secret S of L bytes, a suffix M and an appendix A,
\* with D the hexdigest of S + M, sha1_lea(D, M, A, L) returns (D', P + A) where
\* P = finalize_pad_message(L, M), which begins with M, and D' is the
\* hexdigest of a fresh hasher updated with S + P + A.
C1_LengthExtension ==
    res.op = "sha1_lea" =>
        /\ res.exc = "none"
        /\ \E P \in {finalize_pad_message(FromInt(Len(arg.S)), arg.M).val} :
               /\ res.val[2] = P \o arg.A
               /\ res.val[1] = hexdigest(OneShot(arg.S \o P \o arg.A)).val

\* a secret of 3 bytes, a suffix of 56 bytes, whose padding runs into a second
\* block, and an appendix of more than one block have been extended
C1_Witness ==
    /\ res.op = "sha1_lea"
    /\ res.exc = "none"
    /\ Len(arg.S) = 3
    /\ Len(arg.M) = 56
    /\ Len(arg.A) = 70

\* C1 as claimed: D' is the hexdigest of a fresh hasher updated with
\* S + M + P + A, where P = finalize_pad_message(L, M).
C1_AsClaimed ==
    res.op = "sha1_lea" =>
        /\ res.exc = "none"
        /\ \E P \in {finalize_pad_message(FromInt(Len(arg.S)), arg.M).val} :
               /\ res.val[2] = P \o arg.A
               /\ res.val[1] = hexdigest(OneShot(arg.S \o arg.M \o P \o arg.A)).val

\* C2: whenever no update is running, a hasher that was passed its bytes in
\* any pieces (empty ones included) has the HashState, the buffer and the
\* counter of a fresh hasher after the single call update(all the bytes).
C2_ChunkingInvariance ==
    pc = 0 => \A i \in Inst : View(i) = OneShot(fed[i])

\* 128 bytes, which no single piece holds, have been passed and update has returned
C2_Witness ==
    /\ pc = 0
    /\ ret.op = "return"
    /\ Len(fed[1]) = 128

FinalizeOps == {"finalize", "digest", "hexdigest"}

\* C3: a call of finalize, digest or hexdigest leaves the HashState (the 5
\* words of self.h), the buffer and the counter of the hasher as they were.
C3_NonDestructiveFinalize ==
    [][ret'.op \in FinalizeOps => \A i \in Inst : View(i)' = View(i)]_vars

\* digest has returned on a hasher that has compressed a block and holds bytes
\* in its buffer
C3_Witness ==
    /\ ret.op = "digest"
    /\ ret.exc = "none"
    /\ View(1).hashed_bytes = FromInt(64)
    /\ Len(View(1).buffer) = 9

\* C4: every digest and hexdigest returned is that of a fresh hasher updated
\* once with all the bytes passed to update so far, whatever calls of update,
\* finalize, digest and hexdigest came before.
C4_DigestOfAllBytesFed ==
    /\ ret.op = "digest" =>
           /\ ret.exc = "none"
           /\ ret.val = digest(OneShot(fed[ret.inst])).val
    /\ ret.op = "hexdigest" =>
           /\ ret.exc = "none"
           /\ ret.val = hexdigest(OneShot(fed[ret.inst])).val

\* hexdigest has returned the 40 characters for 119 bytes passed in several pieces
C4_Witness ==
    /\ ret.op = "hexdigest"
    /\ Len(ret.val) = 40
    /\ Len(fed[1]) = 119

\* C5 (as amended): the byte string finalize_pad_message(p, data) returns is
\* not empty, and p plus its length is a multiple of 64.  (2^16 is a multiple
\* of 64, so p mod 64 is the lowest limb of p mod 64.)
C5_PaddedLength ==
    (res.op = "finalize_pad_message" /\ res.exc = "none") =>
        /\ Len(res.val) > 0
        /\ (ModSmall(arg.prefix_length, 64) + Len(res.val)) % 64 = 0

\* 56 bytes of data after a prefix of 3 bytes: the padding runs into a second
\* block, and the 125 bytes returned end it
C5_Witness ==
    /\ res.op = "finalize_pad_message"
    /\ res.exc = "none"
    /\ arg.prefix_length = FromInt(3)
    /\ Len(arg.data) = 56
    /\ Len(res.val) = 125

\* C5 as claimed: the byte string finalize_pad_message returns has a length
\* that is a positive multiple of 64, whatever the prefix length.
C5_AsClaimed ==
    (res.op = "finalize_pad_message" /\ res.exc = "none") =>
        (Len(res.val) > 0 /\ Len(res.val) % 64 = 0)

\* the 8 bytes, most significant first, of v modulo 2^64
BigEndian64(v) ==
    Tuple([k \in 1..8 |->
             IF k % 2 = 1 THEN Limb(v, 4 - ((k - 1) \div 2)) \div 256
                          ELSE Limb(v, 4 - ((k - 1) \div 2)) % 256])

\* C6: finalize_pad_message(p, d) never fails and returns d, the byte 0x80,
\* (56 - (total + 1) mod 64) mod 64 zero bytes and the 8-byte big-endian
\* encoding of total * 8 modulo 2^64, where total = p + len(d).
C6_PaddingStructure ==
    res.op = "finalize_pad_message" =>
        \E total \in {Add(arg.prefix_length, FromInt(Len(arg.data)))} :
            /\ res.exc = "none"
            /\ res.val = arg.data \o <<128>>
                         \o Tuple([k \in 1..((56 - ((Limb(total, 1) + 1) % 64)) % 64) |-> 0])
                         \o BigEndian64(Shl(total, 3))

\* the value of the 4 hex digits s[from..from+3]
Hex4(s, from) ==
    4096 * HexVal(s[from]) + 256 * HexVal(s[from + 1]) + 16 * HexVal(s[from + 2]) + HexVal(s[from + 3])

\* the string is 40 hex digits
WellFormedDigest(s) == Len(s) = 40 /\ \A k \in 1..Len(s) : IsHexChar(s[k])

\* C7: hexdigest_to_state raises an error for every string that is not 40 hex
\* digits, and for 40 hex digits returns exactly 5 words, the g-th the
\* big-endian value of the g-th group of 8 digits.
C7_ImportRejectsMalformed ==
    res.op = "hexdigest_to_state" =>
        IF WellFormedDigest(arg.hexdigest)
        THEN /\ res.exc = "none"
             /\ Len(res.val) = 5
             /\ \A g \in 1..5 :
                    res.val[g] = Norm(<<Hex4(arg.hexdigest, 8 * g - 3), Hex4(arg.hexdigest, 8 * g - 7)>>)
        ELSE res.exc # "none"

\* C8: when no update is running every buffer holds fewer than 64 bytes; a
\* buffer shrinks only in a pass of the loop of update, by its first 64 bytes;
\* and the loop ends: a running update either returns or makes a pass that
\* shortens the buffer by 64 bytes, so it makes at most len(buffer) / 64 passes.
C8_BufferBound ==
    /\ [](pc = 0 => \A i \in Inst : Len(View(i).buffer) < 64)
    /\ [][ret'.op # "SHA1" =>
            \A i \in Inst :
                /\ Len(View(i)'.buffer) < Len(View(i).buffer) =>
                       /\ ret'.op = "compress"
                       /\ View(i)'.buffer = SubSeq(View(i).buffer, 65, Len(View(i).buffer))
                /\ pc = i =>
                       \/ pc' = 0 /\ ret'.op = "return" /\ View(i)' = View(i)
                       \/ pc' = i /\ Len(View(i)'.buffer) = Len(View(i).buffer) - 64]_vars

\* update has returned after its loop consumed two blocks
C8_Witness ==
    /\ ret.op = "return"
    /\ pc = 0
    /\ View(1).hashed_bytes = FromInt(128)
    /\ Len(View(1).buffer) < 64

\* C9: the counter is a multiple of 64, counter + len(buffer) is the number of
\* bytes passed to update, and the counter grows by exactly 64 in each pass of
\* the loop of update and changes in no other step of the hasher.
C9_ByteAccounting ==
    /\ [](\A i \in Inst :
            /\ ToInt(View(i).hashed_bytes) % 64 = 0
            /\ ToInt(View(i).hashed_bytes) + Len(View(i).buffer) = Len(fed[i]))
    /\ [][ret'.op # "SHA1" =>
            \A i \in Inst :
                IF ret'.op = "compress" /\ ret'.inst = i
                THEN View(i)'.hashed_bytes = Add(View(i).hashed_bytes, FromInt(64))
                ELSE View(i)'.hashed_bytes = View(i).hashed_bytes]_vars

\* a block has been compressed out of a buffer that held more than the block
C9_Witness ==
    /\ ret.op = "compress"
    /\ View(1).hashed_bytes = FromInt(64)
    /\ Len(View(1).buffer) = 9

\* the standard initial constants, as the claim lists them
StandardConstants ==
    <<Lit32(\h6745, \h2301), Lit32(\hEFCD, \hAB89), Lit32(\h98BA, \hDCFE),
      Lit32(\h1032, \h5476), Lit32(\hC3D2, \hE1F0)>>

\* C10: no step of one hasher changes the HashState, the buffer or the counter
\* of the other, and a hasher that has been passed no bytes since SHA1()
\* built it holds the standard constants, whatever the other hasher did.
C10_InstanceIndependence ==
    /\ [](\A i \in Inst : fed[i] = <<>> => View(i) = init(StandardConstants))
    /\ [][\A j \in Inst : j # ret'.inst => View(j)' = View(j)]_vars

\* hasher 1 has just been built anew while hasher 2, built with the same
\* default argument, has compressed a block and holds bytes in its buffer
C10_Witness ==
    /\ ret.op = "SHA1"
    /\ ret.inst = 1
    /\ View(2).hashed_bytes = FromInt(64)
    /\ Len(View(2).buffer) = 6

\* an int of [0, 2^32): at most two limbs, each below 2^16
Word32(w) == Len(w) <= 2 /\ \A k \in 1..Len(w) : w[k] \in 0..65535

\* exactly 5 words of 32 bits
FiveWords(h) == Len(h) = 5 /\ \A k \in 1..5 : Word32(h[k])

\* C11: the HashState of a hasher built by SHA1() or from the state that
\* hexdigest_to_state makes of 40 hex digits holds exactly 5 words of
\* [0, 2^32) after any calls of update, finalize, digest and hexdigest, and so
\* does the state finalize returns: compress, given a block of 64 bytes and 5
\* such words, returns 5 words reduced modulo 2^32.
C11_HashStateWellFormed ==
    /\ \A i \in Inst : FiveWords(View(i).h)
    /\ (ret.op = "finalize" /\ ret.exc = "none") => FiveWords(ret.val)

\* a hasher built from a digest, whose state is not one a hasher built by
\* SHA1() reaches on the same bytes, has compressed a block
C11_Witness ==
    /\ ret.op = "compress"
    /\ ret.exc = "none"
    /\ View(1).hashed_bytes = FromInt(64)
    /\ View(1).h # OneShot(fed[1]).h

\* the chunks m[:64] that the loop of finalize passes to compress, in order,
\* when no call raises: one per pass, the last one as short as what is left
RECURSIVE finalize_chunks(_)
finalize_chunks(m) ==
    IF Len(m) > 0
    THEN <<SubSeq(m, 1, Min(64, Len(m)))>> \o finalize_chunks(SubSeq(m, 65, Len(m)))
    ELSE <<>>

\* the chunks of a padded message are all of 64 bytes and there are len(m)/64
\* of them
WholeBlocks(m) ==
    /\ \A k \in 1..Len(finalize_chunks(m)) : Len(finalize_chunks(m)[k]) = 64
    /\ Len(finalize_chunks(m)) * 64 = Len(m)

\* C12: no call of update, finalize, digest or hexdigest on a hasher built by
\* SHA1() or from a digest, and no call of sha1_lea with any prefix length
\* >= 0, any data and any appendix, fails the assertion len(chunk) == 64 of
\* compress: the counter hashed_bytes is always a multiple of 64, so the
\* message that finalize pads for the buffered bytes is cut into chunks of
\* exactly 64 bytes, and its loop ends without an exception after
\* len(m)/64 compressions.
C12_BlockAssertion ==
    /\ ret.exc # "AssertionError"
    /\ res.exc # "AssertionError"
    /\ \A i \in Inst : ModSmall(View(i).hashed_bytes, 64) = 0
    /\ \A i \in Inst : (pc = 0 \/ pc = InLea(i)) =>
           \E m \in {finalize_pad_message(View(i).hashed_bytes, View(i).buffer)} :
               m.exc = "none" =>
                   /\ WholeBlocks(m.val)
                   /\ finalize_loop(m.val, View(i).h).exc = "none"

\* sha1_lea has returned for a prefix of 3 bytes and an appendix of 70 bytes:
\* the session counted 64 bytes and its finalize compressed two blocks
C12_Witness ==
    /\ res.op = "sha1_lea"
    /\ res.exc = "none"
    /\ ret.op = "hexdigest"
    /\ arg.prefixlength = FromInt(3)
    /\ Len(arg.appendix) = 70
    /\ View(1).hashed_bytes = FromInt(64)
    /\ Len(finalize_chunks(finalize_pad_message(View(1).hashed_bytes, View(1).buffer).val)) = 2

====
